---------------------------- MODULE Spec2Model ----------------------------
(***************************************************************************)
(* Pet door monitor (src/app.py, src/mock_camera.py): the monitoring loop  *)
(* of the worker thread (capture, motion gate, cooldown, classifier,       *)
(* evidence write, capacity pass), the evidence store on disk, and the     *)
(* management requests that change the state the loop reads.               *)
(*                                                                         *)
(* Time is counted in ticks of 1/TicksPerSecond second.  File sizes are    *)
(* counted in GiB, the unit get_storage_usage_gb reports.  A path of the   *)
(* storage tree is <<category, id, ext>>, id the second strftime prints.   *)
(***************************************************************************)
EXTENDS Integers, Sequences, FiniteSets, TLC

(* ------------------------------ bounds -------------------------------- *)
\* ticks of the clock a run follows after its start
Horizon == 5
\* what the environment does to one run: the faults it injects (camera,
\* classifier, disk) and the management requests it sends, together
MaxEvents == 1
\* frames the camera delivers before it only fails
MaxCaptures == 3
\* entries of the largest store a capacity run starts from
MaxEntries == 6
\* size of one image file and of one metadata file, in GiB
ImgSize == 2
MetaSize == 1
\* resolution of the clock: ticks in one second
TicksPerSecond == 1
\* API threads that serve requests at the same time
MaxClients == 2
\* requests one API thread serves in a run
MaxCalls == 2
\* boxes in one result of the classifier, records in one detection list
MaxBoxes == 2
\* entries of the store a pass with a batch of several files starts from
BatchEntries == 10

(* ------------------------- program constants -------------------------- *)
cooldown_seconds == 5
motion_threshold == 30
default_fps == 2
default_high_water_mark_gb == 10
default_detection_confidence == 50
\* cv2.threshold(frame_delta, 25, ...)
delta_threshold == 25

\* gray levels of the one-pixel frames the camera delivers
Frames == {0, 200}

VARIABLES
  CONFIG,               \* fps, high_water_mark_gb, detection_confidence
  detection_active,     \* global flag, line 48
  last_detection_time,  \* global, line 47
  background_frame,     \* global, line 49: <<>> is None, <<g>> a frame
  files,                \* the storage tree: path -> [size, mtime, data]
  now,                  \* the wall clock, in ticks
  pc,                   \* the worker's position in monitoring_loop
  frame_bgr,            \* local of monitoring_loop
  current_time,         \* local of monitoring_loop
  pets,                 \* local of monitoring_loop
  timestamp,            \* local of save_detection
  all_files,            \* cleanup_old_files: the slice still to delete
  began_active,         \* what line 208 read in this iteration
  gate,                 \* this iteration's motion/cooldown verdict
  fault,                \* the stage that raised in this iteration
  classified,           \* detect_pets in this iteration: none/raised/returned
  wrote,                \* paths this iteration wrote
  written,              \* event times of the completed evidence writes
  failures,             \* injected faults so far
  requests,             \* management requests so far
  captures,             \* frames delivered so far
  last_pass,            \* the latest capacity pass: tree before it, verdict
  calls,                \* event times of the calls of detect_pets
  api                   \* the request each API thread is serving

vars == <<CONFIG, detection_active, last_detection_time, background_frame,
          files, now, pc, frame_bgr, current_time, pets, timestamp,
          all_files, began_active, gate, fault, classified, wrote, written,
          failures, requests, captures, last_pass, calls, api>>

(* ------------------------------ helpers ------------------------------- *)
EmptyTree == [p \in {} |-> 0]

RECURSIVE SumSizes(_, _)
SumSizes(f, S) ==
  IF S = {} THEN 0
  ELSE LET p == CHOOSE q \in S : TRUE
       IN f[p].size + SumSizes(f, S \ {p})

\* lines 94-99: every file of the tree counts, whatever its extension
get_storage_usage_gb(f) == SumSizes(f, DOMAIN f)

Images(f) == {p \in DOMAIN f : p[3] = "jpg"}
EntryIds(f) == {<<p[1], p[2]>> : p \in DOMAIN f}

Remove(f, p) == [q \in DOMAIN f \ {p} |-> f[q]]

\* line 116: the sequences a stable sort by mtime can give, the walk order
\* of files with equal mtime being the file system's choice
RECURSIVE SortedByMtime(_, _)
SortedByMtime(f, S) ==
  IF S = {} THEN {<<>>}
  ELSE LET Oldest == {p \in S : \A q \in S : f[p].mtime <= f[q].mtime}
       IN UNION {{<<p>> \o s : s \in SortedByMtime(f, S \ {p})} : p \in Oldest}

\* line 118: int(len(all_files) * 0.2)
files_to_delete(n) == (n * 2) \div 10

\* mutant: the pass runs on at usage equal to the mark
within_mark_strict(f, cfg) == get_storage_usage_gb(f) < cfg.high_water_mark_gb

\* line 104: the pass returns at once when usage is within the mark
within_mark(f, cfg) == get_storage_usage_gb(f) <= cfg.high_water_mark_gb

\* lines 109-119: the slices all_files[:files_to_delete] a scan can give
cleanup_slices(f) ==
  {SubSeq(s, 1, files_to_delete(Len(s))) : s \in SortedByMtime(f, Images(f))}

\* lines 132-148: [motion, background] for a one-pixel frame
AbsDiff(a, b) == IF a >= b THEN a - b ELSE b - a
\* cv2.addWeighted(background, 0.9, gray, 0.1, 0), rounded to a uint8
AddWeighted(bg, gray) == (9 * bg + gray + 5) \div 10
\* mutant: an unset background counts as a black frame
detect_motion_no_baseline(bg, frame) ==
  LET old == IF bg = <<>> THEN 0 ELSE bg[1]
  IN [motion |-> (IF AbsDiff(old, frame) > delta_threshold THEN 100 ELSE 0)
                   > motion_threshold,
      background |-> IF bg = <<>> THEN <<frame>> ELSE <<AddWeighted(old, frame)>>]

detect_motion(bg, frame) ==
  IF bg = <<>>
  THEN [motion |-> FALSE, background |-> <<frame>>]
  ELSE LET motion_pixels == IF AbsDiff(bg[1], frame) > delta_threshold THEN 1 ELSE 0
           frame_pixels == 1
       IN [motion |-> motion_pixels * 100 > motion_threshold * frame_pixels,
           background |-> <<AddWeighted(bg[1], frame)>>]

\* result.names of the classifier: COCO ids 15 and 16, anything else
names(cls) == IF cls = 15 THEN "cat" ELSE IF cls = 16 THEN "dog" ELSE "person"
Box(cls, conf) == [cls |-> cls, conf |-> conf]
\* what model(frame, conf=...) may return: sequences of boxes
RawResults == {<<>>, <<Box(15, 60)>>, <<Box(0, 60)>>}

RECURSIVE FilterPets(_)
FilterPets(boxes) ==
  IF boxes = <<>> THEN <<>>
  ELSE LET b == Head(boxes)
           rest == FilterPets(Tail(boxes))
       IN IF names(b.cls) \in {"cat", "dog"}
          THEN <<[type |-> names(b.cls), confidence |-> b.conf]>> \o rest
          ELSE rest
\* lines 150-169
detect_pets(raw) == FilterPets(raw)

\* mutant: the fallback category is wrong
category_of_wrong_default(ps) ==
  IF \E i \in 1..Len(ps) : ps[i].type = "cat" THEN "cats"
  ELSE IF \E i \in 1..Len(ps) : ps[i].type = "dog" THEN "dogs"
  ELSE "cats"

\* mutant: a dog is looked for before a cat
category_of_dog_first(ps) ==
  IF \E i \in 1..Len(ps) : ps[i].type = "dog" THEN "dogs"
  ELSE IF \E i \in 1..Len(ps) : ps[i].type = "cat" THEN "cats"
  ELSE "unknown"

\* lines 175-182
category_of(ps) ==
  IF ps = <<>> THEN "unknown"
  ELSE IF \E i \in 1..Len(ps) : ps[i].type = "cat" THEN "cats"
  ELSE IF \E i \in 1..Len(ps) : ps[i].type = "dog" THEN "dogs"
  ELSE "unknown"

\* line 184: the identifier keeps the second and drops the rest
strftime(t) == t \div TicksPerSecond

image_path(ps, t) == <<category_of(ps), strftime(t), "jpg">>
\* line 188: filepath.with_suffix('.json')
meta_path(ps, t) == <<category_of(ps), strftime(t), "json">>

image_file(t) == [size |-> ImgSize, mtime |-> t, data |-> <<>>]
\* lines 189-194
meta_file(ps, t) ==
  [size |-> MetaSize, mtime |-> t,
   data |-> <<[timestamp |-> t, category |-> category_of(ps),
               detections |-> ps, filename |-> strftime(t)]>>]

cooldown_ticks == cooldown_seconds * TicksPerSecond

\* mutant: the window is one tick short
in_cooldown_short(t, last) == t - last < cooldown_ticks - 1

\* line 219
in_cooldown(t, last) == t - last < cooldown_ticks

\* mutant: the flag is not looked at
loop_branch_ignores_flag(active) == "capture"

\* lines 208-210: a paused iteration sleeps and starts over
loop_branch(active) == IF active THEN "capture" ELSE "paused"

\* mutant: the sleep of line 230 stands after the try statement
on_exception_sleep_outside_try(stage) ==
  IF stage = "sleep" THEN "crashed" ELSE "except"

\* lines 212, 232-234: every statement of an active iteration is inside the
\* try, so whatever stage raises, the handler runs
on_exception(stage) == "except"

\* mutant: the loop goes to its sleep after the write
on_saved_no_pass == "sleep_fps"

\* lines 226-228: save_detection has returned, cleanup_old_files is next
on_saved == "cleanup"

\* mutant: a failed removal ends the batch
remove_failed_aborts(rest) == <<>>

\* lines 120-123: the except clause is inside the for loop, which goes on
\* with the rest of the slice
remove_failed(rest) == rest

NoPass == [before |-> EmptyTree, verdict |-> "none", errors |-> 0]

\* Flask serves each request on a thread of its own (threaded=True)
Clients == 1..MaxClients
\* a thread between requests: op the handler it runs, pc its position in
\* the handler, target the entry of a delete, tmp the value line 297
\* computed, status and active its last response, n the requests it has
\* served, last the entry its previous request named, before the tree
\* its request found
IdleClient ==
  [op |-> "none", pc |-> "idle", target |-> <<>>, tmp |-> <<>>,
   status |-> "none", active |-> <<>>, n |-> 0, last |-> <<>>,
   before |-> EmptyTree]

(* ------------------------------- Init --------------------------------- *)
DefaultConfig ==
  [fps |-> default_fps,
   high_water_mark_gb |-> default_high_water_mark_gb,
   detection_confidence |-> default_detection_confidence]

\* a store of n complete entries left by earlier runs, entry k written in
\* second k, the categories taking turns
OldCategory(k) == IF k % 3 = 0 THEN "cats" ELSE IF k % 3 = 1 THEN "unknown" ELSE "dogs"
OldStore(n) ==
  [p \in {<<OldCategory(k), k, e>> : k \in 1..n, e \in {"jpg", "json"}} |->
     IF p[3] = "jpg"
     THEN image_file(p[2] * TicksPerSecond)
     ELSE meta_file(IF p[1] = "cats" THEN <<[type |-> "cat", confidence |-> 60]>>
                    ELSE IF p[1] = "dogs" THEN <<[type |-> "dog", confidence |-> 60]>>
                    ELSE <<>>,
                    p[2] * TicksPerSecond)]

\* the run starts after every old entry's second, the clock far past 0
StartTick == (MaxEntries + cooldown_seconds) * TicksPerSecond
MaxTime == StartTick + Horizon

InitCommon ==
  /\ detection_active = TRUE
  /\ last_detection_time = 0
  /\ background_frame = <<>>
  /\ now = StartTick
  /\ frame_bgr = 0
  /\ current_time = 0
  /\ pets = <<>>
  /\ timestamp = 0
  /\ all_files = <<>>
  /\ began_active = TRUE
  /\ gate = "idle"
  /\ fault = "none"
  /\ classified = "none"
  /\ wrote = {}
  /\ written = <<>>
  /\ failures = 0
  /\ requests = 0
  /\ captures = 0
  /\ last_pass = NoPass
  /\ calls = <<>>
  /\ api = [t \in Clients |-> IdleClient]

\* the process starts on an empty data directory or on one an earlier run
\* filled (ensure_storage keeps what exists)
Init ==
  /\ InitCommon
  /\ CONFIG = DefaultConfig
  /\ files \in {EmptyTree, OldStore(MaxEntries - 1)}
  /\ pc = "top"

(* ------------------------ the monitoring loop ------------------------- *)
\* what an iteration leaves behind when control returns to line 207
ResetLocals ==
  /\ frame_bgr' = 0
  /\ current_time' = 0
  /\ pets' = <<>>
  /\ timestamp' = 0
  /\ all_files' = <<>>
  /\ began_active' = TRUE
  /\ gate' = "idle"
  /\ fault' = "none"
  /\ classified' = "none"
  /\ wrote' = {}
  /\ last_pass' = NoPass

Locals == <<frame_bgr, current_time, pets, timestamp, all_files>>
Ghosts == <<began_active, gate, fault, classified, wrote>>
Globals == <<CONFIG, detection_active, last_detection_time, background_frame>>
Env == <<now, failures, requests, captures>>

\* a stage raises: lines 232-233 catch it
Raise(stage) ==
  /\ fault' = stage
  /\ pc' = on_exception(stage)

\* the environment makes a stage fail, within its budget
Inject ==
  /\ failures + requests < MaxEvents
  /\ failures' = failures + 1

\* lines 207-210
LoopTop ==
  /\ pc = "top"
  /\ began_active' = detection_active
  /\ pc' = loop_branch(detection_active)
  /\ UNCHANGED <<Globals, files, Env, Locals, gate, fault, classified, wrote,
                 written, calls, api, last_pass>>

\* lines 209-210: time.sleep(1); continue
PausedSleep ==
  /\ pc = "paused"
  /\ pc' = "top"
  /\ ResetLocals
  /\ UNCHANGED <<Globals, files, Env, written, calls, api>>

\* lines 213-214: the camera delivers a frame or raises
Capture ==
  /\ pc = "capture"
  /\ \/ /\ captures < MaxCaptures
        /\ \E f \in Frames : frame_bgr' = f
        /\ captures' = captures + 1
        /\ pc' = "motion"
        /\ UNCHANGED <<failures, fault>>
     \/ /\ captures < MaxCaptures
        /\ Inject
        /\ Raise("capture")
        /\ UNCHANGED <<frame_bgr, captures>>
     \/ /\ captures >= MaxCaptures
        /\ Raise("capture")
        /\ UNCHANGED <<frame_bgr, captures, failures>>
  /\ UNCHANGED <<Globals, files, now, requests, current_time, pets, timestamp,
                 all_files, began_active, gate, classified, wrote, written, calls, api,
                 last_pass>>

\* line 216: detect_motion(frame_bgr)
Motion ==
  /\ pc = "motion"
  /\ \/ LET r == detect_motion(background_frame, frame_bgr)
        IN /\ background_frame' = r.background
           /\ gate' = IF r.motion THEN "motion" ELSE "still"
           /\ pc' = IF r.motion THEN "cooldown" ELSE "sleep_fps"
           /\ UNCHANGED <<failures, fault>>
     \/ /\ Inject
        /\ Raise("motion")
        /\ UNCHANGED <<background_frame, gate>>
  /\ UNCHANGED <<CONFIG, detection_active, last_detection_time, files, now,
                 requests, captures, Locals, began_active, classified, wrote,
                 written, calls, api, last_pass>>

\* lines 217-221
Cooldown ==
  /\ pc = "cooldown"
  /\ current_time' = now
  /\ IF in_cooldown(now, last_detection_time)
     THEN /\ gate' = "rejected"
          /\ pc' = "sleep_fps"
     ELSE /\ gate' = "accepted"
          /\ pc' = "classify"
  /\ UNCHANGED <<Globals, files, Env, frame_bgr, pets, timestamp, all_files,
                 began_active, fault, classified, wrote, written, calls, api, last_pass>>

\* line 223: detect_pets(frame_bgr)
Classify ==
  /\ pc = "classify"
  /\ calls' = Append(calls, current_time)
  /\ \/ /\ \E raw \in RawResults : pets' = detect_pets(raw)
        /\ classified' = "returned"
        /\ pc' = "save_img"
        /\ UNCHANGED <<failures, fault>>
     \/ /\ Inject
        /\ classified' = "raised"
        /\ Raise("classify")
        /\ UNCHANGED pets
  /\ UNCHANGED <<Globals, files, now, requests, captures, frame_bgr,
                 current_time, timestamp, all_files, began_active, gate, wrote,
                 written, api, last_pass>>

\* lines 173-186: timestamp, category, filename, cv2.imwrite.  imwrite
\* writes the file, or returns False having written nothing, or raises
SaveImage ==
  /\ pc = "save_img"
  /\ timestamp' = now
  /\ \/ /\ files' = (image_path(pets, now) :> image_file(now)) @@ files
        /\ wrote' = wrote \cup {image_path(pets, now)}
        /\ pc' = "save_meta"
        /\ UNCHANGED <<failures, fault>>
     \/ /\ Inject
        /\ pc' = "save_meta"
        /\ UNCHANGED <<files, wrote, fault>>
     \/ /\ Inject
        /\ Raise("imwrite")
        /\ UNCHANGED <<files, wrote>>
  /\ UNCHANGED <<Globals, now, requests, captures, frame_bgr, current_time,
                 pets, all_files, began_active, gate, classified, written, calls, api,
                 last_pass>>

\* lines 188-199 and 227: the sidecar, then last_detection_time
SaveMeta ==
  /\ pc = "save_meta"
  /\ \/ /\ files' = (meta_path(pets, timestamp) :> meta_file(pets, timestamp)) @@ files
        /\ wrote' = wrote \cup {meta_path(pets, timestamp)}
        /\ last_detection_time' = current_time
        /\ written' = Append(written, current_time)
        /\ pc' = on_saved
        /\ UNCHANGED <<failures, fault>>
     \/ /\ Inject
        /\ Raise("metadata")
        /\ UNCHANGED <<files, wrote, last_detection_time, written>>
  /\ UNCHANGED <<CONFIG, detection_active, background_frame, now, requests,
                 captures, Locals, began_active, gate, classified, last_pass,
                 calls, api>>

\* lines 101-118: the usage check and the scan of the tree
CleanupScan ==
  /\ pc = "cleanup"
  /\ \/ /\ within_mark(files, CONFIG)
        /\ all_files' = <<>>
        /\ last_pass' = [before |-> files, verdict |-> "noop", errors |-> 0]
        /\ pc' = "sleep_fps"
        /\ UNCHANGED <<failures, fault>>
     \/ /\ ~within_mark(files, CONFIG)
        /\ \E s \in cleanup_slices(files) : all_files' = s
        /\ last_pass' = [before |-> files, verdict |-> "evicting", errors |-> 0]
        /\ pc' = "cleanup_rm"
        /\ UNCHANGED <<failures, fault>>
     \/ /\ Inject
        /\ Raise("cleanup")
        /\ UNCHANGED <<all_files, last_pass>>
  /\ UNCHANGED <<Globals, files, now, requests, captures, frame_bgr,
                 current_time, pets, timestamp, began_active, gate, classified,
                 wrote, written, calls, api>>

\* lines 119-126: one turn of the deletion loop, or its end
CleanupRemove ==
  /\ pc = "cleanup_rm"
  /\ \/ /\ all_files = <<>>
        /\ last_pass' = [last_pass EXCEPT !.verdict = "evicted"]
        /\ pc' = "sleep_fps"
        /\ UNCHANGED <<files, all_files, failures>>
     \/ /\ all_files # <<>>
        /\ Head(all_files) \in DOMAIN files
        /\ files' = Remove(files, Head(all_files))
        /\ all_files' = Tail(all_files)
        /\ UNCHANGED <<pc, last_pass, failures>>
     \/ /\ all_files # <<>>
        /\ \/ Inject
           \/ Head(all_files) \notin DOMAIN files /\ UNCHANGED failures
        /\ all_files' = remove_failed(Tail(all_files))
        /\ last_pass' = [last_pass EXCEPT !.errors = @ + 1]
        /\ UNCHANGED <<pc, files>>
  /\ UNCHANGED <<Globals, now, requests, captures, frame_bgr, current_time,
                 pets, timestamp, Ghosts, written, calls, api>>

\* lines 220 and 230: time.sleep(1 / CONFIG['fps']) divides by zero for
\* fps = 0 and is refused by sleep for fps < 0
SleepFps ==
  /\ pc = "sleep_fps"
  /\ IF CONFIG.fps > 0
     THEN /\ pc' = "top"
          /\ ResetLocals
     ELSE /\ Raise("sleep")
          /\ UNCHANGED <<Locals, began_active, gate, classified, wrote, last_pass>>
  /\ UNCHANGED <<Globals, files, Env, written, calls, api>>

\* lines 232-234
Except ==
  /\ pc = "except"
  /\ pc' = "top"
  /\ ResetLocals
  /\ UNCHANGED <<Globals, files, Env, written, calls, api>>

Worker ==
  \/ LoopTop
  \/ PausedSleep
  \/ Capture
  \/ Motion
  \/ Cooldown
  \/ Classify
  \/ SaveImage
  \/ SaveMeta
  \/ CleanupScan
  \/ CleanupRemove
  \/ SleepFps
  \/ Except

\* the clock moves while the worker sleeps and while the classifier runs;
\* it is read at lines 217 and 173 only
Tick ==
  /\ pc \in {"top", "classify"}
  /\ now < MaxTime
  /\ now' = now + 1
  /\ UNCHANGED <<Globals, files, pc, Locals, Ghosts, written, calls, api, failures,
                 requests, captures, last_pass>>

(* ----------------------- management requests -------------------------- *)
\* A request is served by another thread at any moment.  The worker reads
\* what requests write (the flag, CONFIG) at line 208, at the sleeps and in
\* the capacity pass only, so a request served during an iteration acts as
\* one served right after line 208, and one served during a sleep as one
\* served right before line 208: these two moments stand for all.
Serving ==
  /\ pc \in {"top", "capture"}
  /\ failures + requests < MaxEvents

\* lines 293-301
toggle_detection ==
  /\ Serving
  /\ requests' = requests + 1
  /\ detection_active' = ~detection_active
  /\ UNCHANGED <<CONFIG, last_detection_time, background_frame, files, now,
                 pc, Locals, Ghosts, written, calls, api, failures, captures, last_pass>>

\* lines 309-315: each key present in the request body is stored
update_config(cfg, data) ==
  [k \in DOMAIN cfg |-> IF k \in DOMAIN data THEN data[k] ELSE cfg[k]]

\* the request bodies a run draws from
ConfigRequests == {[fps |-> 0], [fps |-> 0 - 1]}

\* lines 303-317, POST
handle_config ==
  /\ Serving
  /\ requests' = requests + 1
  /\ \E data \in ConfigRequests : CONFIG' = update_config(CONFIG, data)
  /\ UNCHANGED <<detection_active, last_detection_time, background_frame,
                 files, now, pc, Locals, Ghosts, written, calls, api, failures, captures,
                 last_pass>>

(* ------------- requests served step by step, side by side ------------- *)
\* line 297, the read: detection_active is loaded and negated
ToggleRead(t) ==
  /\ api[t].pc = "idle"
  /\ api[t].n < MaxCalls
  /\ api' = [api EXCEPT ![t] = [@ EXCEPT !.op = "toggle", !.pc = "negated",
                                         !.tmp = <<~detection_active>>,
                                         !.status = "none", !.active = <<>>]]
  /\ UNCHANGED <<Globals, files, pc, Env, Locals, Ghosts, written, last_pass,
                 calls>>

\* line 297, the write: the negated value is stored in the global
ToggleWrite(t) ==
  /\ api[t].op = "toggle"
  /\ api[t].pc = "negated"
  /\ detection_active' = api[t].tmp[1]
  /\ api' = [api EXCEPT ![t].pc = "stored"]
  /\ UNCHANGED <<CONFIG, last_detection_time, background_frame, files, pc,
                 Env, Locals, Ghosts, written, last_pass, calls>>

\* lines 298-301: the response reads the global again
ToggleReply(t) ==
  /\ api[t].op = "toggle"
  /\ api[t].pc = "stored"
  /\ api' = [api EXCEPT ![t] = [@ EXCEPT !.pc = "idle", !.status = "200",
                                         !.active = <<detection_active>>,
                                         !.n = @ + 1]]
  /\ requests' = requests + 1
  /\ UNCHANGED <<Globals, files, pc, now, failures, captures, Locals, Ghosts,
                 written, last_pass, calls>>

\* mutant: the handler takes the image path for the sidecar's
json_path_same_as_img(e) == <<e[1], e[2], "jpg">>

\* lines 322-323: the two paths of the entry the URL names
img_path(e) == <<e[1], e[2], "jpg">>
json_path(e) == <<e[1], e[2], "json">>

\* the entries a delete request may name: those of the store the run
\* starts from, the oldest first
DeleteTargets == {<<OldCategory(k), k>> : k \in 1..MaxCalls}

\* lines 320-323: the request arrives
DeleteBegin(t) ==
  /\ api[t].pc = "idle"
  /\ api[t].n < MaxCalls
  /\ \E e \in DeleteTargets :
       api' = [api EXCEPT ![t] = [@ EXCEPT !.op = "delete", !.pc = "check_img",
                                          !.target = e, !.status = "none",
                                          !.last = api[t].target,
                                          !.before = files]]
  /\ UNCHANGED <<Globals, files, pc, Env, Locals, Ghosts, written, last_pass,
                 calls>>

\* line 326: img_path.exists()
DeleteCheckImg(t) ==
  /\ api[t].pc = "check_img"
  /\ api' = [api EXCEPT ![t].pc = IF img_path(api[t].target) \in DOMAIN files
                                   THEN "rm_img" ELSE "check_meta"]
  /\ UNCHANGED <<Globals, files, pc, Env, Locals, Ghosts, written, last_pass,
                 calls>>

\* what the handler answers and where it stands after its response
Respond(t, code) ==
  [api EXCEPT ![t] = [@ EXCEPT !.pc = "idle", !.status = code, !.n = @ + 1]]

\* line 327: os.remove(img_path) raises when the file is gone by now, and
\* lines 331-332 answer 500
DeleteRemoveImg(t) ==
  /\ api[t].pc = "rm_img"
  /\ IF img_path(api[t].target) \in DOMAIN files
     THEN /\ files' = Remove(files, img_path(api[t].target))
          /\ api' = [api EXCEPT ![t].pc = "check_meta"]
          /\ UNCHANGED requests
     ELSE /\ api' = Respond(t, "500")
          /\ requests' = requests + 1
          /\ UNCHANGED files
  /\ UNCHANGED <<Globals, pc, now, failures, captures, Locals, Ghosts, written,
                 last_pass, calls>>

\* line 328: meta_path.exists(); line 330 answers when it does not
DeleteCheckMeta(t) ==
  /\ api[t].pc = "check_meta"
  /\ IF json_path(api[t].target) \in DOMAIN files
     THEN /\ api' = [api EXCEPT ![t].pc = "rm_meta"]
          /\ UNCHANGED requests
     ELSE /\ api' = Respond(t, "200")
          /\ requests' = requests + 1
  /\ UNCHANGED <<Globals, files, pc, now, failures, captures, Locals, Ghosts,
                 written, last_pass, calls>>

\* lines 329-330: os.remove(meta_path), then the response
DeleteRemoveMeta(t) ==
  /\ api[t].pc = "rm_meta"
  /\ IF json_path(api[t].target) \in DOMAIN files
     THEN /\ files' = Remove(files, json_path(api[t].target))
          /\ api' = Respond(t, "200")
     ELSE /\ api' = Respond(t, "500")
          /\ UNCHANGED files
  /\ requests' = requests + 1
  /\ UNCHANGED <<Globals, pc, now, failures, captures, Locals, Ghosts, written,
                 last_pass, calls>>

delete_detection(t) ==
  \/ DeleteBegin(t)
  \/ DeleteCheckImg(t)
  \/ DeleteRemoveImg(t)
  \/ DeleteCheckMeta(t)
  \/ DeleteRemoveMeta(t)

Next ==
  \/ Worker
  \/ Tick
  \/ toggle_detection
  \/ handle_config

Spec == Init /\ [][Next]_vars

\* the worker thread is scheduled as long as the process lives
FairSpec == Spec /\ WF_vars(Worker)

(* ------------------- capacity passes on a given store ----------------- *)
\* a store of any size up to MaxEntries, any mark the config request takes,
\* the worker about to call cleanup_old_files
CapInit ==
  /\ InitCommon
  /\ \E n \in 0..MaxEntries : files = OldStore(n)
  /\ \E m \in 0..(MaxEntries * (ImgSize + MetaSize)) :
       CONFIG = [DefaultConfig EXCEPT !.high_water_mark_gb = m]
  /\ pc = "cleanup"

\* the next tick's call of cleanup_old_files, nothing written in between
NextPass ==
  /\ pc \in {"sleep_fps", "except"}
  /\ pc' = "cleanup"
  /\ fault' = "none"
  /\ UNCHANGED <<Globals, files, Env, Locals, began_active, gate, classified,
                 wrote, written, calls, api, last_pass>>

CapNext ==
  \/ CleanupScan
  \/ CleanupRemove
  \/ NextPass

CapacitySpec == CapInit /\ [][CapNext]_vars

CapacityFair == CapacitySpec /\ WF_vars(CapNext)

(* ------------------ delete requests, one after another ---------------- *)
Restrict(f, S) == [p \in S |-> f[p]]

\* any store an earlier run can leave behind: entries that are complete,
\* that lack their image or their sidecar, or that are absent
SoloInit ==
  /\ InitCommon
  /\ CONFIG = DefaultConfig
  /\ pc = "top"
  /\ \E S \in SUBSET DOMAIN OldStore(MaxCalls + 1) :
       files = Restrict(OldStore(MaxCalls + 1), S)

\* one API thread serves delete requests, nothing else runs
SoloNext == delete_detection(1)

SoloDeleteSpec == SoloInit /\ [][SoloNext]_vars

(* ------------------- save_detection on a given list ------------------- *)
\* the sequences of at most n elements of S
SeqsUpTo(S, n) == UNION {[1..k -> S] : k \in 0..n}

\* the lists save_detection can be handed: records of any label
PetLists ==
  SeqsUpTo({[type |-> ty, confidence |-> 60] : ty \in {"cat", "dog", "person"}},
           MaxBoxes)

\* a tick the motion gate and the cooldown check have let through
TickAccepted ==
  /\ detection_active = TRUE
  /\ last_detection_time = 0
  /\ background_frame = <<0>>
  /\ files = EmptyTree
  /\ now \in StartTick..MaxTime
  /\ frame_bgr = 200
  /\ current_time = now
  /\ timestamp = 0
  /\ all_files = <<>>
  /\ began_active = TRUE
  /\ gate = "accepted"
  /\ fault = "none"
  /\ wrote = {}
  /\ written = <<>>
  /\ failures = 0
  /\ requests = 0
  /\ captures = 1
  /\ last_pass = NoPass
  /\ api = [t \in Clients |-> IdleClient]

\* the worker is about to call save_detection(frame_bgr, pets), line 226
SaveInit ==
  /\ TickAccepted
  /\ CONFIG = DefaultConfig
  /\ pc = "save_img"
  /\ pets \in PetLists
  /\ classified = "returned"
  /\ calls = <<current_time>>

SaveNext ==
  \/ SaveImage
  \/ SaveMeta

SaveSpec == SaveInit /\ [][SaveNext]_vars

(* ------------------ detect_pets on any classifier ---------------------- *)
\* confidences in percent: those MockBox draws, uniform(0.5, 0.95), and
\* those CONFIG['detection_confidence'] is set to
MockConfidences == {50, 72, 95}
ConfidenceSettings == {25, 50, 90}

\* mock_camera.py: 0 to 2 boxes, each a cat or a dog, whatever conf is
MockYOLO(conf) ==
  SeqsUpTo({Box(cls, c) : cls \in {15, 16}, c \in MockConfidences}, 2)

\* ultralytics: boxes of any class whose confidence reaches conf
YOLO(conf) ==
  SeqsUpTo({Box(cls, c) : cls \in {0, 15, 16},
                          c \in {k \in MockConfidences : k >= conf}}, MaxBoxes)

\* line 27: the classifier is the one or the other
model(conf) == MockYOLO(conf) \cup YOLO(conf)

\* the worker is about to call detect_pets(frame_bgr), line 223, the
\* confidence set to any value a config request stores
DetectInit ==
  /\ TickAccepted
  /\ \E c \in ConfidenceSettings :
       CONFIG = [DefaultConfig EXCEPT !.detection_confidence = c]
  /\ pc = "classify"
  /\ pets = <<>>
  /\ classified = "none"
  /\ calls = <<>>

\* lines 150-169 on every result of model(frame, conf=...)
DetectPets ==
  /\ pc = "classify"
  /\ calls' = Append(calls, current_time)
  /\ \E raw \in model(CONFIG.detection_confidence) : pets' = detect_pets(raw)
  /\ classified' = "returned"
  /\ pc' = "save_img"
  /\ UNCHANGED <<Globals, files, Env, frame_bgr, current_time, timestamp,
                 all_files, began_active, gate, fault, wrote, written,
                 last_pass, api>>

DetectNext ==
  \/ DetectPets
  \/ SaveImage
  \/ SaveMeta

DetectSpec == DetectInit /\ [][DetectNext]_vars

(* --------------- capacity passes with a batch of several -------------- *)
\* a store large enough for a fifth of its images to be more than one
\* file, over a mark that any number of passes leaves it above
BatchInit ==
  /\ InitCommon
  /\ \E n \in (BatchEntries - 1)..BatchEntries : files = OldStore(n)
  /\ \E m \in 0..MaxEntries :
       CONFIG = [DefaultConfig EXCEPT !.high_water_mark_gb = m]
  /\ pc = "cleanup"

BatchSpec == BatchInit /\ [][CapNext]_vars

(* ------------- delete requests beside a capacity pass ------------------ *)
\* a store of complete entries over its mark, the worker about to call
\* cleanup_old_files, the API threads idle
RaceInit ==
  /\ InitCommon
  /\ files = OldStore(MaxEntries - 1)
  /\ CONFIG = [DefaultConfig EXCEPT !.high_water_mark_gb = 0]
  /\ pc = "cleanup"

RaceNext ==
  \/ \E t \in Clients : delete_detection(t)
  \/ CapNext

DeleteSpec == RaceInit /\ [][RaceNext]_vars

(* ---------------------- toggle requests side by side ------------------- *)
\* the process as started, every API thread idle
ToggleInit ==
  /\ InitCommon
  /\ CONFIG = DefaultConfig
  /\ files = EmptyTree
  /\ pc = "top"

\* the steps of the toggle requests, and the worker's reads of the flag
ToggleNext ==
  \/ \E t \in Clients : ToggleRead(t)
  \/ \E t \in Clients : ToggleWrite(t)
  \/ \E t \in Clients : ToggleReply(t)
  \/ LoopTop
  \/ PausedSleep

ToggleSpec == ToggleInit /\ [][ToggleNext]_vars

(* ------------------------------ claims -------------------------------- *)
HasImage(f, e) == <<e[1], e[2], "jpg">> \in DOMAIN f
HasSidecar(f, e) == <<e[1], e[2], "json">> \in DOMAIN f
PassEnded == pc = "sleep_fps" /\ last_pass.verdict \in {"noop", "evicted"}

\* C1: after a capacity pass has completed, every evidence entry has both
\* its image and its metadata sidecar, or neither (CapacitySpec: the store
\* holds complete entries before the first pass).
C1_PairsSurviveCleanup ==
  PassEnded =>
    \A e \in EntryIds(files) : HasImage(files, e) <=> HasSidecar(files, e)

\* C2: from any store, with nothing written in between, repeated capacity
\* passes eventually bring usage to or below the mark (CapacityFair: passes
\* keep running); a run in which a deletion failed is left out.
C2_PassesConverge ==
  <>(get_storage_usage_gb(files) <= CONFIG.high_water_mark_gb \/ failures > 0)

\* capture timestamp of an entry, as its sidecar records it
CaptureTime(f, e) == f[<<e[1], e[2], "json">>].data[1].timestamp
OldestEntries(f, k) ==
  {S \in SUBSET EntryIds(f) :
     /\ Cardinality(S) = k
     /\ \A a \in S : \A b \in EntryIds(f) \ S : CaptureTime(f, a) <= CaptureTime(f, b)}

\* C3: a pass that finds usage over the mark and n entries in the store
\* deletes the floor(n * 0.2) entries with the oldest capture timestamps,
\* image and metadata, and leaves every other file as it was (passes in
\* which no deletion failed).
C3_OldestFifthDeleted ==
  (PassEnded /\ last_pass.verdict = "evicted" /\ last_pass.errors = 0) =>
    LET before == last_pass.before
        n == Cardinality(EntryIds(before))
    IN \E S \in OldestEntries(before, n \div 5) :
         /\ DOMAIN files = {p \in DOMAIN before : <<p[1], p[2]>> \notin S}
         /\ \A p \in DOMAIN files : files[p] = before[p]

\* C4: a capacity pass that finds usage at or below high_water_mark_gb
\* deletes nothing: it does not enter the deletion loop, and the tree it
\* leaves is the tree it found.
C4_NoopWithinMark ==
  /\ [][(pc = "cleanup" /\ get_storage_usage_gb(files) <= CONFIG.high_water_mark_gb)
          => (files' = files /\ pc' # "cleanup_rm")]_vars
  /\ [](last_pass.verdict = "noop" => files = last_pass.before)

\* C4 witness: a pass ended as a no-op on a store of five images or more
\* whose usage equals the mark
C4_Witness ==
  /\ PassEnded
  /\ last_pass.verdict = "noop"
  /\ Cardinality(Images(files)) >= 5
  /\ get_storage_usage_gb(files) = CONFIG.high_water_mark_gb

\* the worker has taken a step of monitoring_loop
WorkerStep == pc' # pc \/ all_files' # all_files

\* C5: no failure of a stage ends the monitoring loop.  Under FairSpec the
\* loop is back at line 207 again and again, whatever raised (the sleep for
\* fps <= 0 included), and a tick with motion whose cooldown has elapsed
\* goes on to the classifier, whatever failed before.
C5_LoopSurvives ==
  /\ []<>(pc = "top")
  /\ [][(pc = "cooldown" /\ WorkerStep /\ now - last_detection_time >= cooldown_ticks)
          => pc' = "classify"]_vars
  /\ [][(pc = "classify" /\ WorkerStep) => pc' \in {"save_img", "except"}]_vars

\* C5 witness: an earlier iteration failed and this one has written its
\* evidence
C5_Witness ==
  /\ failures >= 1
  /\ fault = "none"
  /\ pc = "cleanup"
  /\ Cardinality(wrote) = 2

EndOfTick == pc \in {"sleep_fps", "except"}

\* C6 as stated: on an accepted tick, if detect_pets raises nothing is
\* written and last_detection_time keeps its value; if it returns the empty
\* list, one entry of category unknown is written, image and metadata, and
\* last_detection_time becomes the tick's event time.
C6_Original ==
  /\ (classified = "raised" => (wrote = {} /\ last_detection_time # current_time))
  /\ (EndOfTick /\ classified = "returned" /\ pets = <<>>) =>
       /\ wrote = {<<"unknown", strftime(timestamp), "jpg">>,
                   <<"unknown", strftime(timestamp), "json">>}
       /\ last_detection_time = current_time

\* C6 amended: if detect_pets raises, nothing is written on that tick and
\* last_detection_time keeps its value.  If it returns the empty list, the
\* write goes to category unknown only; when save_detection returns, the
\* sidecar of one unknown entry has been written, recording no detection,
\* and last_detection_time becomes the tick's event time; when the write
\* raises, last_detection_time keeps its value.
C6_FailureVsEmpty ==
  /\ [](classified = "raised" => (wrote = {} /\ last_detection_time # current_time))
  /\ [][(classified = "raised" /\ WorkerStep) => UNCHANGED <<files, last_detection_time>>]_vars
  /\ []((classified = "returned" /\ pets = <<>>) =>
          wrote \subseteq {<<"unknown", strftime(timestamp), "jpg">>,
                           <<"unknown", strftime(timestamp), "json">>})
  /\ [][(pc = "save_meta" /\ pc' = "cleanup" /\ pets = <<>>) =>
          LET p == <<"unknown", strftime(timestamp), "json">>
          IN /\ p \in wrote'
             /\ p \in DOMAIN files'
             /\ files'[p].data[1].category = "unknown"
             /\ files'[p].data[1].detections = <<>>
             /\ last_detection_time' = current_time]_vars
  /\ []((classified = "returned" /\ fault \in {"imwrite", "metadata"}) =>
          last_detection_time # current_time)

\* C6 witness: the classifier returned the empty list and the entry is on
\* disk under unknown
C6_Witness ==
  /\ pc = "cleanup"
  /\ classified = "returned"
  /\ pets = <<>>
  /\ <<"unknown", strftime(timestamp), "json">> \in DOMAIN files
  /\ last_detection_time = current_time

C8_PausedDoesNothing ==
  /\ [](pc \notin {"top", "paused"} => began_active)
  /\ [][(pc = "top" /\ ~detection_active /\ WorkerStep) => pc' = "paused"]_vars
  /\ [][((pc = "top" /\ ~detection_active) \/ pc = "paused") /\ WorkerStep
          => UNCHANGED <<last_detection_time, background_frame, files,
                         captures, written, last_pass>>]_vars
  /\ [][(wrote' # wrote /\ wrote' # {}) => (began_active /\ began_active')]_vars

\* C8 witness: the loop is paused in mid-run, after a write
C8_Witness ==
  /\ pc = "paused"
  /\ ~detection_active
  /\ written # <<>>

\* C9: the sidecar of an entry is written only when the image of that entry
\* is on disk, so no reader finds metadata of this tick without its image.
C9_NoSidecarWithoutImage ==
  \A p \in wrote : p[3] = "json" => <<p[1], p[2], "jpg">> \in DOMAIN files

\* C10: a write never lands on the sidecar of an entry that is already
\* stored, so each completed write adds one entry (runs in which no fault
\* is injected, whatever the classifier's latency).
C10_WritesNeverOverwrite ==
  [][failures' = 0 =>
       \A p \in wrote' \ wrote : p[3] = "json" => p \notin DOMAIN files]_vars

\* the ranges the configuration is meant to stay in: a positive frame rate,
\* a mark that is not negative, a confidence between 0 and 1
InRange(cfg) ==
  /\ cfg.fps > 0
  /\ cfg.high_water_mark_gb >= 0
  /\ cfg.detection_confidence \in 0..100

\* C11: a config update never stores an out-of-range value of fps,
\* high_water_mark_gb or detection_confidence: an update of a configuration
\* that is in range leaves it in range (the rejected value is not stored).
C11_ConfigValidated ==
  [][(InRange(CONFIG) /\ CONFIG' # CONFIG) => InRange(CONFIG')]_vars

\* thread t has answered a delete request
Answered(t) == api[t].op = "delete" /\ api[t].pc = "idle"

\* C12: a delete request that runs alone answers success and leaves the
\* store it found without the image and without the metadata of the entry
\* it names, every other file as it was; a second delete of the same entry
\* answers success and changes nothing.
C12_DeleteIdempotent ==
  Answered(1) =>
    LET e == api[1].target
        gone == {<<e[1], e[2], "jpg">>, <<e[1], e[2], "json">>}
    IN /\ api[1].status = "200"
       /\ DOMAIN files = DOMAIN api[1].before \ gone
       /\ \A p \in DOMAIN files : files[p] = api[1].before[p]
       /\ (api[1].n >= 2 /\ api[1].last = e) => files = api[1].before

\* C12 witness: the second delete of one entry has been answered, other
\* entries still stored
C12_Witness ==
  /\ Answered(1)
  /\ api[1].n = 2
  /\ api[1].last = api[1].target
  /\ api[1].status = "200"
  /\ Cardinality(DOMAIN files) >= 3

\* the category the list calls for: cats before dogs before unknown
PriorityCategory(ps) ==
  IF \E i \in 1..Len(ps) : ps[i].type = "cat" THEN "cats"
  ELSE IF \E i \in 1..Len(ps) : ps[i].type = "dog" THEN "dogs"
  ELSE "unknown"

\* C13: save_detection stores the entry under cats if the list has a cat,
\* else under dogs if it has a dog, else under unknown (the empty list
\* included); what one call writes lies under that one category, and the
\* sidecar records the same category.
C13_CategoryByPriority ==
  /\ category_of(pets) = PriorityCategory(pets)
  /\ \A p \in wrote :
       /\ p[1] \in {"cats", "dogs", "unknown"}
       /\ p[1] = PriorityCategory(pets)
       /\ p[3] = "json" => files[p].data[1].category = p[1]
  /\ \A p \in DOMAIN files : p \in wrote

\* C13 witness: a list with a dog first and a cat second is stored under
\* cats
C13_Witness ==
  /\ pc = "cleanup"
  /\ Len(pets) = 2
  /\ pets[1].type = "dog"
  /\ pets[2].type = "cat"
  /\ <<"cats", strftime(timestamp), "json">> \in DOMAIN files

\* a detection record a reader may rely on
Filtered(d, cfg) ==
  /\ d.type \in {"cat", "dog"}
  /\ d.confidence >= cfg.detection_confidence

\* C14: every record detect_pets returns, and every record a sidecar
\* holds, is a cat or a dog whose confidence is at least the
\* detection_confidence in force, whichever classifier produced the boxes.
C14_DetectionsFiltered ==
  /\ classified = "returned" =>
       \A i \in 1..Len(pets) : Filtered(pets[i], CONFIG)
  /\ \A p \in DOMAIN files :
       p[3] = "json" =>
         \A i \in 1..Len(files[p].data[1].detections) :
           Filtered(files[p].data[1].detections[i], CONFIG)

\* C15: the event times of any two calls of detect_pets are at least
\* cooldown_seconds apart, also when a call raised or the write after it
\* failed.
C15_CallsDebounced ==
  \A i, j \in 1..Len(calls) :
    i < j => calls[j] - calls[i] >= cooldown_seconds * TicksPerSecond

InPass == pc \in {"cleanup", "cleanup_rm"}

\* C16: the capacity pass is part of the worker's tick.  A tick whose
\* save_detection returns goes on to cleanup_old_files, and the pass ends
\* before the tick's sleep; a pass starts at no other moment: not on a
\* tick without a write, not in a paused iteration, not in a request.
C16_CleanupInline ==
  /\ [][(pc = "save_meta" /\ written' # written) => pc' = "cleanup"]_vars
  /\ [][(pc' = "cleanup" /\ pc # "cleanup") =>
          (pc = "save_meta" /\ written' # written)]_vars
  /\ [][(InPass /\ WorkerStep) => pc' \in {"cleanup_rm", "sleep_fps", "except"}]_vars
  /\ [](InPass => (began_active /\ wrote # {} /\ classified = "returned"))
  /\ [][(last_pass' # last_pass /\ last_pass' # NoPass) => InPass]_vars
  /\ [][requests' # requests => (files' = files /\ last_pass' = last_pass /\ pc' = pc)]_vars

\* C16 witness: the tick that wrote an entry has run a pass that evicted,
\* and is at its sleep
C16_Witness ==
  /\ pc = "sleep_fps"
  /\ wrote # {}
  /\ last_pass.verdict = "evicted"
  /\ DOMAIN files # DOMAIN last_pass.before

\* the worker has evaluated detect_motion and it returned
Evaluated == pc = "motion" /\ pc' \in {"cooldown", "sleep_fps"}

\* C17: the evaluation that finds background_frame unset reports no motion
\* whatever the frame shows, and makes the frame the background; so the
\* first frame captured leads to no call of detect_pets and to no write.
\* Every later evaluation stores the blend of the background and the frame,
\* whether it reports motion or not.
C17_FirstFrameIsBaseline ==
  /\ [][(Evaluated /\ background_frame = <<>>) =>
          (pc' = "sleep_fps" /\ background_frame' = <<frame_bgr>>)]_vars
  /\ [][(pc = "motion" /\ background_frame = <<>> /\ WorkerStep) =>
          pc' \in {"sleep_fps", "except"}]_vars
  /\ [](captures <= 1 => (calls = <<>> /\ written = <<>> /\ wrote = {}))
  /\ [][(Evaluated /\ background_frame # <<>>) =>
          background_frame' = <<(9 * background_frame[1] + frame_bgr + 5) \div 10>>]_vars

\* C17 witness: the first frame shows the bright rectangle, the gate has
\* reported no motion and the frame is the background
C17_Witness ==
  /\ captures = 1
  /\ frame_bgr = 200
  /\ gate = "still"
  /\ pc = "sleep_fps"
  /\ background_frame = <<200>>

\* C18: a removal that fails inside a capacity pass ends neither the batch
\* nor the pass: the loop goes on with the next file of the slice, nothing
\* is raised, and at the end of the pass every selected file but the failed
\* ones is gone.
C18_BatchSurvivesFailure ==
  /\ [][(pc = "cleanup_rm" /\ all_files # <<>> /\ WorkerStep) =>
          (pc' = "cleanup_rm" /\ all_files' = Tail(all_files) /\ fault' = "none")]_vars
  /\ []((PassEnded /\ last_pass.verdict = "evicted") =>
          LET before == last_pass.before
              gone == DOMAIN before \ DOMAIN files
          IN /\ Cardinality(gone) + last_pass.errors
                  = (Cardinality(Images(before)) * 2) \div 10
             /\ gone \subseteq Images(before)
             /\ fault = "none")

\* C18 witness: of a batch of two the removal of the oldest image failed
\* and the second oldest image was removed all the same
C18_Witness ==
  /\ PassEnded
  /\ last_pass.verdict = "evicted"
  /\ last_pass.errors = 1
  /\ <<OldCategory(1), 1, "jpg">> \in DOMAIN files
  /\ <<OldCategory(2), 2, "jpg">> \in DOMAIN last_pass.before
  /\ <<OldCategory(2), 2, "jpg">> \notin DOMAIN files

\* C19: whatever runs beside it, another delete of the same entry or the
\* worker's capacity pass, a delete request answers success and the entry
\* it named has neither its image nor its metadata.
C19_DeleteRaceFree ==
  \A t \in Clients :
    Answered(t) =>
      /\ api[t].status = "200"
      /\ <<api[t].target[1], api[t].target[2], "jpg">> \notin DOMAIN files
      /\ <<api[t].target[1], api[t].target[2], "json">> \notin DOMAIN files

\* C20: when every toggle request has been answered, detection_active is
\* its initial value (true) negated once for each request answered, and
\* each response reports the value its request stored.
C20_TogglesNotLost ==
  /\ (\A t \in Clients : api[t].pc = "idle") =>
       (detection_active <=> requests % 2 = 0)
  /\ \A t \in Clients :
       (api[t].op = "toggle" /\ api[t].pc = "idle") => api[t].active = api[t].tmp

=============================================================================
